---- MODULE Spec2Model ----
(***************************************************************************)
(* Model of src/v2/0-global.js (Freshwater v2.0 global theme script): the  *)
(* infinite-scroll list duplication fresh_infinite_scroll, its growth      *)
(* routine fresh_startAnimation, and the event handlers that call them.    *)
(*                                                                         *)
(* The page is a sequence of scrollers (document order).  A scroller holds *)
(* its source list (the first ul) followed by the duplicated lists that    *)
(* were appended to it.  Layout results (offsetWidth of the scroller and   *)
(* of each item) are inputs fixed by the markup and the style sheet.       *)
(***************************************************************************)
EXTENDS Integers, Sequences, FiniteSets, TLC

(***************************************************************************)
(* Bounds of the model.                                                    *)
(***************************************************************************)
NumScrollers == 2
MaxItems == 2
MaxItemWidth == 2
MaxVisible == 2
NumHeaders == 3
MaxBindings == 3

(***************************************************************************)
(* Attributes and JavaScript values.                                       *)
(* An attribute is <<>> when absent (getAttribute returns null) and <<s>>  *)
(* when present with text s.  A JavaScript number is a record so that NaN  *)
(* is a value of its own.                                                  *)
(***************************************************************************)
Num(v) == [nan |-> FALSE, val |-> v]
NaN == [nan |-> TRUE, val |-> 0]

\* Number(string) for the attribute texts of the model; any other text is
\* not a numeric literal.
NumberOfString(s) ==
    CASE s = ""     -> Num(0)
      [] s = "0"    -> Num(0)
      [] s = "3"    -> Num(3)
      [] s = "10"   -> Num(10)
      [] s = "50"   -> Num(50)
      [] s = "5000" -> Num(5000)
      [] OTHER      -> NaN

\* Number(el.getAttribute(name)): Number(null) is 0.
ToNumber(attr) == IF attr = <<>> THEN Num(0) ELSE NumberOfString(attr[1])

\* a > b, a == b and a * b on JavaScript numbers: comparisons with NaN are false.
JsGt(a, b) == ~a.nan /\ ~b.nan /\ a.val > b.val
JsEq(a, b) == ~a.nan /\ ~b.nan /\ a.val = b.val
JsMul(a, b) == IF a.nan \/ b.nan THEN NaN ELSE Num(a.val * b.val)

\* Truthiness of getAttribute's result: null and '' are falsy.
Truthy(attr) == attr # <<>> /\ attr[1] # ""

(***************************************************************************)
(* data-slick texts of the model and what                                  *)
(* JSON.parse(slickData.replace(/&quot;/g, '"')) makes of them.            *)
(***************************************************************************)
SlickMalformed == "{&quot;responsive&quot;:[{"
SlickNoResponsive == "{&quot;dots&quot;:false}"
SlickOneBreakpoint == "{&quot;responsive&quot;:[{&quot;settings&quot;:&quot;unslick&quot;}]}"
SlickUnslickUnslick == "{&quot;responsive&quot;:[{&quot;settings&quot;:&quot;unslick&quot;},{&quot;settings&quot;:&quot;unslick&quot;}]}"
SlickUnslickSlider == "{&quot;responsive&quot;:[{&quot;settings&quot;:&quot;unslick&quot;},{&quot;settings&quot;:{}}]}"
SlickSliderUnslick == "{&quot;responsive&quot;:[{&quot;settings&quot;:{}},{&quot;settings&quot;:&quot;unslick&quot;}]}"
SlickSliderSlider == "{&quot;responsive&quot;:[{&quot;settings&quot;:{}},{&quot;settings&quot;:{}}]}"

\* ok = FALSE: JSON.parse throws SyntaxError.  responsive is the parsed
\* object's responsive array (<<>> when the property is undefined or empty);
\* a settings value is the string "unslick" or "object".
JsonParse(text) ==
    CASE text = SlickNoResponsive   -> [ok |-> TRUE, responsive |-> <<>>]
      [] text = SlickOneBreakpoint  -> [ok |-> TRUE, responsive |-> <<"unslick">>]
      [] text = SlickUnslickUnslick -> [ok |-> TRUE, responsive |-> <<"unslick", "unslick">>]
      [] text = SlickUnslickSlider  -> [ok |-> TRUE, responsive |-> <<"unslick", "object">>]
      [] text = SlickSliderUnslick  -> [ok |-> TRUE, responsive |-> <<"object", "unslick">>]
      [] text = SlickSliderSlider   -> [ok |-> TRUE, responsive |-> <<"object", "object">>]
      [] OTHER                      -> [ok |-> FALSE, responsive |-> <<>>]

\* Lines 380-382 throw: SyntaxError from JSON.parse, or TypeError from
\* responsive[0].settings / responsive[1].settings on a missing entry.
SlickThrows(slickData) ==
    LET parsed == JsonParse(slickData[1])
    IN  ~parsed.ok \/ Len(parsed.responsive) < 2

(***************************************************************************)
(* State.                                                                  *)
(***************************************************************************)
VARIABLES
    innerWidth,   \* window.innerWidth
    scrollers,    \* the .fresh_infinit-scoller elements, in document order
    timeout,      \* debounce's timeout: "null" or "pending"
    page,         \* "loading" (before document-ready), "ready", or "hung"
    last,         \* what the most recent event delivery did
    animPc,       \* fresh_startAnimation, run step by step: position
    animList,     \* list.children as their offsetWidths
    animVisible,  \* list.parentNode.offsetWidth
    totalWidth,   \* var totalWidth
    i,            \* var i
    passStart,    \* totalWidth when the while condition last held
    animClones,   \* clonedList.children
    timers,       \* the pending setTimeout timers, each as its ms left
    sinceResize,  \* ms since the last resize event, up to Wait
    burstRuns,    \* runs of the resize handler since the last resize event
    headers,      \* the .accordion_item .accordion-header elements
    click         \* the header the last event clicked, and its state before

vars == <<innerWidth, scrollers, timeout, page, last,
          animPc, animList, animVisible, totalWidth, i, passStart, animClones,
          timers, sinceResize, burstRuns, headers, click>>
timeVars == <<timers, sinceResize, burstRuns>>
accordionVars == <<headers, click>>
pageVars == <<innerWidth, scrollers, timeout, page, last, timers, sinceResize, burstRuns,
              headers, click>>
animVars == <<animPc, animList, animVisible, totalWidth, i, passStart, animClones>>


(***************************************************************************)
(* Markup.                                                                 *)
(* An item is a child of the list; img says whether it contains an image.  *)
(* styleWidth is the item's inline style.width in px (<<>> when unset).    *)
(* A duplicated list keeps, for each child, the index of the source item   *)
(* it is a clone of and whether it carries aria-hidden="true".             *)
(***************************************************************************)
Item(img, src, dataSrc, imageWidthMd, width) ==
    [img |-> img, src |-> src, dataSrc |-> dataSrc, loading |-> img,
     imageWidthMd |-> imageWidthMd, styleWidth |-> <<>>, imgMaxWidth |-> FALSE,
     offsetWidth |-> width]

PlainItem(width) == Item(FALSE, <<>>, <<>>, <<>>, width)
ImageItem(src, dataSrc) == Item(TRUE, src, dataSrc, <<"50">>, 1)

List(showMd, showSm, speedMd, speedSm, slick, items) ==
    [slidesToShowMd |-> showMd, slidesToShowSm |-> showSm,
     slidesMaxWidthMd |-> <<"10">>, slidesMaxWidthSm |-> <<"3">>,
     speedMd |-> speedMd, speedSm |-> speedSm, slick |-> slick,
     classes |-> {}, items |-> items]

Scroller(list, visible) == [list |-> list, dups |-> <<>>, offsetWidth |-> visible]

SeqsUpTo(S, n) == UNION {[1..k -> S] : k \in 0..n}

SpeedTexts == {<<>>, <<"fast">>, <<"5000">>}
SlickTexts == {<<>>, <<"">>, <<SlickMalformed>>, <<SlickNoResponsive>>,
               <<SlickOneBreakpoint>>, <<SlickUnslickUnslick>>, <<SlickUnslickSlider>>,
               <<SlickSliderUnslick>>, <<SlickSliderSlider>>}
SrcTexts == {<<>>, <<"a.jpg">>}
DataSrcTexts == {<<>>, <<"">>, <<"x.jpg">>}
ShowTexts == {<<>>, <<"3">>}
PageItemWidths == {0, 1}
PageVisibleWidths == {0, 1}
Viewports == {767, 768, 769}

\* Scrollers that differ in their slider configuration and animation speeds.
SliderMarkups ==
    {Scroller(List(<<"3">>, <<"3">>, md, sm, slick, <<PlainItem(1)>>), 1) :
        md \in SpeedTexts, sm \in SpeedTexts, slick \in SlickTexts}

\* Animated scrollers that differ in their items' rendered widths.
WidthMarkups ==
    {Scroller(List(<<"3">>, <<"3">>, <<"5000">>, <<"5000">>, <<>>,
                   [k \in DOMAIN ws |-> PlainItem(ws[k])]), v) :
        ws \in SeqsUpTo(PageItemWidths, MaxItems), v \in PageVisibleWidths}

\* Scrollers whose first item differs in its image; the items after it are
\* lazy-loaded images.
ImageKinds ==
    {PlainItem(1)} \cup {ImageItem(src, dataSrc) : src \in SrcTexts, dataSrc \in DataSrcTexts}
ImageMarkups ==
    {Scroller(List(<<"3">>, <<"3">>, <<>>, <<>>, <<>>,
                   [k \in 1..n |-> IF k = 1 THEN first ELSE ImageItem(<<>>, <<"x.jpg">>)]), 1) :
        first \in ImageKinds, n \in 1..MaxItems}

\* Scrollers in auto-width mode on either breakpoint.
AutoWidthMarkups ==
    {Scroller(List(md, sm, <<>>, <<>>, <<>>,
                   <<ImageItem(<<"a.jpg">>, <<>>), PlainItem(1)>>), 1) :
        md \in ShowTexts, sm \in ShowTexts}

ScrollerMarkups == SliderMarkups \cup WidthMarkups \cup ImageMarkups \cup AutoWidthMarkups

\* The markup of the page's other scrollers: an animated list without slider.
DefaultMarkup ==
    Scroller(List(<<"3">>, <<"3">>, <<"5000">>, <<"5000">>, <<>>, <<PlainItem(1)>>), 1)

NoEvent == [type |-> "none", outcome |-> "ok", reached |-> {}, grew |-> {}, rest |-> FALSE]

(***************************************************************************)
(* fresh_infinite_scroll, lines 325-389.                                   *)
(***************************************************************************)
\* Lines 338-343 and 347-353: one item of the auto-width pass.  An
\* assignment of "NaNpx" to style.width is not valid CSS and is dropped.
AutoWidthItem(item, slidesMaxWidth, removeLoading) ==
    LET slideWidth == JsMul(slidesMaxWidth, ToNumber(item.imageWidthMd))
    IN  IF item.img
        THEN [item EXCEPT !.styleWidth = IF slideWidth.nan THEN @ ELSE <<slideWidth.val>>,
                          !.imgMaxWidth = TRUE,
                          !.loading = IF removeLoading THEN FALSE ELSE @]
        ELSE item

\* Lines 332-355.
AutoWidthPass(list, w) ==
    IF w >= 768 /\ JsEq(ToNumber(list.slidesToShowMd), Num(0))
    THEN [k \in DOMAIN list.items |->
            AutoWidthItem(list.items[k], ToNumber(list.slidesMaxWidthMd), FALSE)]
    ELSE IF w < 768 /\ JsEq(ToNumber(list.slidesToShowSm), Num(0))
    THEN [k \in DOMAIN list.items |->
            AutoWidthItem(list.items[k], ToNumber(list.slidesMaxWidthSm), TRUE)]
    ELSE list.items

\* setAttribute(name, value) stores String(value): null becomes "null".
AttributeString(attr) == IF attr = <<>> THEN "null" ELSE attr[1]

\* Lines 359-366: one item of the lazy-load promotion.
PromoteItem(item) ==
    IF item.img /\ item.src = <<>> /\ item.dataSrc # <<"">>
    THEN [item EXCEPT !.src = <<AttributeString(item.dataSrc)>>]
    ELSE item

\* Lines 358-367.
LazyLoadPass(items) == [k \in DOMAIN items |-> PromoteItem(items[k])]

\* Lines 371-372: querySelector finds the first duplicated list; remove() it.
RemoveDuplicate(dups) ==
    IF \E k \in DOMAIN dups : "fresh-duplicated-list" \in dups[k].classes
    THEN LET first == CHOOSE k \in DOMAIN dups :
                         /\ "fresh-duplicated-list" \in dups[k].classes
                         /\ \A j \in 1..(k - 1) : "fresh-duplicated-list" \notin dups[j].classes
         IN  [j \in 1..(Len(dups) - 1) |-> IF j < first THEN dups[j] ELSE dups[j + 1]]
    ELSE dups

\* Lines 373-374 and 376: list.cloneNode(true) with its class changes.
CloneList(list) ==
    [classes |-> (list.classes \cup {"fresh-duplicated-list"}) \ {"fresh-is-animated"},
     slick |-> list.slick,
     infinite |-> FALSE,
     children |-> [k \in DOMAIN list.items |-> [item |-> k, hidden |-> FALSE]]]

\* Lines 381-384: the animation speeds after the slider check.
DesktopSlick(slickData) == JsonParse(slickData[1]).responsive[1]
MobileSlick(slickData) == JsonParse(slickData[1]).responsive[2]

EffectiveSpeedMd(list) ==
    LET animationSpeedMd == ToNumber(list.speedMd)
    IN  IF Truthy(list.slick) /\ JsGt(animationSpeedMd, Num(0))
           /\ DesktopSlick(list.slick) # "unslick"
        THEN Num(0) ELSE animationSpeedMd

\* Line 384 left out: the mobile speed kept whatever the mobile slider is.
EffectiveSpeedSmIgnoringSlider(list) == ToNumber(list.speedSm)

EffectiveSpeedSm(list) ==
    LET animationSpeedSm == ToNumber(list.speedSm)
    IN  IF Truthy(list.slick) /\ JsGt(animationSpeedSm, Num(0))
           /\ MobileSlick(list.slick) # "unslick"
        THEN Num(0) ELSE animationSpeedSm

\* Lines 386-387: whether fresh_startAnimation is called.
StartsAnimation(list, w) ==
    \/ w <= 768 /\ JsGt(EffectiveSpeedSm(list), Num(0))
    \/ w > 768 /\ JsGt(EffectiveSpeedMd(list), Num(0))

(***************************************************************************)
(* fresh_startAnimation, lines 391-402.                                    *)
(***************************************************************************)
\* Line 394 with <= for <.
LoopConditionInclusive(total, visible) == total <= visible * 11

\* Line 394.
LoopCondition(total, visible) == total < visible * 11

\* Line 397 left out: the appended clone is not marked aria-hidden.
ClonedChildVisible(k) == [item |-> k, hidden |-> FALSE]

\* Lines 396-397.
ClonedChild(k) == [item |-> k, hidden |-> TRUE]

\* Line 399 read before line 398: a node that is not in the document has
\* offsetWidth 0.
DetachedWidth(w) == 0

\* Line 399: the offsetWidth of the appended clone of an item of width w.
ClonedChildWidth(w) == w

RECURSIVE SeqSum(_)
SeqSum(ws) == IF ws = <<>> THEN 0 ELSE Head(ws) + SeqSum(Tail(ws))

\* Lines 395-400: what one pass of the for loop adds to totalWidth.
PassWidth(widths) == SeqSum([k \in DOMAIN widths |-> ClonedChildWidth(widths[k])])

\* Lines 393-401 run to completion.  A pass of the for loop that adds
\* nothing to totalWidth leaves the while condition as it found it, so the
\* loop never ends: hang.
RECURSIVE GrowLoop(_, _, _, _)
GrowLoop(widths, visible, total, children) ==
    IF LoopCondition(total, visible)
    THEN IF PassWidth(widths) = 0
         THEN [hang |-> TRUE, children |-> children]
         ELSE GrowLoop(widths, visible, total + PassWidth(widths),
                       children \o [k \in DOMAIN widths |-> ClonedChild(k)])
    ELSE [hang |-> FALSE, children |-> children]

fresh_startAnimation(list, clonedList, visible) ==
    LET widths == [k \in DOMAIN list.items |-> list.items[k].offsetWidth]
        grown == GrowLoop(widths, visible, 0, clonedList.children)
    IN  [hang |-> grown.hang,
         clonedList |-> [clonedList EXCEPT !.infinite = TRUE, !.children = grown.children]]

\* Lines 329-387: the body of scrollers.forEach for one scroller.
ProcessScroller(scroller, w) ==
    LET list == scroller.list
        items == LazyLoadPass(AutoWidthPass(list, w))
        clonedList == CloneList(list)
        newList == [list EXCEPT !.items = items, !.classes = @ \cup {"fresh-is-animated"}]
        kept == RemoveDuplicate(scroller.dups)
        rebuilt == [scroller EXCEPT !.list = newList, !.dups = Append(kept, clonedList)]
    IN  IF Truthy(list.slick) /\ SlickThrows(list.slick)
        THEN [scroller |-> rebuilt, outcome |-> "throw", grew |-> FALSE]
        ELSE IF StartsAnimation(list, w)
        THEN LET grown == fresh_startAnimation(newList, clonedList, scroller.offsetWidth)
             IN  [scroller |-> [rebuilt EXCEPT !.dups = Append(kept, grown.clonedList)],
                  outcome |-> IF grown.hang THEN "hang" ELSE "ok",
                  grew |-> TRUE]
        ELSE [scroller |-> rebuilt, outcome |-> "ok", grew |-> FALSE]

\* Lines 327-388: scrollers.forEach, which an exception or an endless loop
\* in one scroller's callback ends.
RECURSIVE ForEachScroller(_, _, _)
ForEachScroller(scs, k, w) ==
    IF k > Len(scs)
    THEN [scrollers |-> scs, outcome |-> "ok", reached |-> {}, grew |-> {}]
    ELSE LET r == ProcessScroller(scs[k], w)
             done == [scs EXCEPT ![k] = r.scroller]
             rest == IF r.outcome = "ok"
                     THEN ForEachScroller(done, k + 1, w)
                     ELSE [scrollers |-> done, outcome |-> r.outcome,
                           reached |-> {}, grew |-> {}]
         IN  [rest EXCEPT !.reached = @ \cup {k},
                          !.grew = IF r.grew THEN @ \cup {k} ELSE @]

fresh_infinite_scroll(scs, w) == ForEachScroller(scs, 1, w)

(***************************************************************************)
(* debounce(func, wait, immediate), lines 42-55, as line 481-487 calls it. *)
(***************************************************************************)
\* Line 487: wait.
Wait == 100

\* debounce called with immediate = true.
ImmediateLeading == TRUE

\* Line 487: no third argument, so immediate is undefined.
Immediate == FALSE

NoClick == [header |-> 0, wasActive |-> FALSE]

\* Line 51: clearTimeout(timeout) removes the timer the variable refers to,
\* the one set last; clearTimeout(null) does nothing.
ClearTimeout(ts) ==
    IF timeout = "pending" /\ ts # {}
    THEN ts \ {CHOOSE t \in ts : \A u \in ts : u <= t}
    ELSE ts

(***************************************************************************)
(* fresh_toggleAccordion, lines 166-190.  A header keeps its active class, *)
(* whether its content is open (maxHeight set to its scrollHeight rather   *)
(* than 0), whether icon2 rather than icon1 is shown, and the number of    *)
(* click handlers bound to it.                                             *)
(***************************************************************************)
ClosedHeader == [active |-> FALSE, open |-> FALSE, icon2 |-> FALSE, handlers |-> 0]

\* Lines 168-188: the click handler, run on header b.
ClickHandler(hs, b) ==
    LET nowActive == ~hs[b].active
    IN  [k \in DOMAIN hs |->
            IF k = b
            THEN [hs[k] EXCEPT !.active = nowActive, !.open = nowActive, !.icon2 = nowActive]
            ELSE [hs[k] EXCEPT !.active = FALSE, !.open = FALSE, !.icon2 = FALSE]]

\* A click on header b runs every handler bound to it, in the order bound.
RECURSIVE RunClickHandlers(_, _, _)
RunClickHandlers(hs, b, n) ==
    IF n = 0 THEN hs ELSE RunClickHandlers(ClickHandler(hs, b), b, n - 1)

\* Line 167: .click(fn) binds one more handler to every header.
fresh_toggleAccordion(hs) == [k \in DOMAIN hs |-> [hs[k] EXCEPT !.handlers = @ + 1]]

\* No timer is pending and no resize event has been delivered.
TimeIdle ==
    /\ timers = {}
    /\ sinceResize = Wait
    /\ burstRuns = 0

(***************************************************************************)
(* The page and its event handlers.                                        *)
(***************************************************************************)
AnimIdle ==
    /\ animPc = "idle"
    /\ animList = <<>>
    /\ animVisible = 0
    /\ totalWidth = 0
    /\ i = 0
    /\ passStart = -1
    /\ animClones = <<>>

\* The script has run and registered its handlers; the document is not ready
\* yet.  One scroller of the page is drawn from ScrollerMarkups.
Init ==
    /\ innerWidth \in Viewports
    /\ \E varied \in 1..NumScrollers : \E markup \in ScrollerMarkups :
          scrollers = [k \in 1..NumScrollers |-> IF k = varied THEN markup ELSE DefaultMarkup]
    /\ timeout = "null"
    /\ page = "loading"
    /\ last = NoEvent
    /\ AnimIdle
    /\ TimeIdle
    /\ headers = <<>>
    /\ click = NoClick

\* A handler whose body calls fresh_infinite_scroll(e) and then the calls
\* that follow it: these run only when the call returns.
RunWithScroll(type) ==
    LET r == fresh_infinite_scroll(scrollers, innerWidth)
    IN  /\ scrollers' = r.scrollers
        /\ page' = IF r.outcome = "hang" THEN "hung" ELSE IF type = "ready" THEN "ready" ELSE page
        /\ last' = [type |-> type, outcome |-> r.outcome, reached |-> r.reached,
                    grew |-> r.grew, rest |-> r.outcome = "ok"]

\* A handler whose body does not call fresh_infinite_scroll.
RunWithoutScroll(type) ==
    /\ scrollers' = scrollers
    /\ page' = page
    /\ last' = [type |-> type, outcome |-> "ok", reached |-> {}, grew |-> {}, rest |-> TRUE]

\* Lines 465-472 and 474-479: the document-ready handlers, in the order
\* they were registered.
DocumentReady ==
    /\ page = "loading"
    /\ headers' = fresh_toggleAccordion(headers)
    /\ click' = NoClick
    /\ RunWithScroll("ready")
    /\ UNCHANGED <<innerWidth, timeout>>
    /\ UNCHANGED timeVars
    /\ UNCHANGED animVars

\* Lines 481 and 44-54: a resize event reaches the debounced wrapper, which
\* clears the pending timer and sets a new one.
Resize ==
    /\ page # "hung"
    /\ \E w \in Viewports : innerWidth' = w
    /\ timeout' = "pending"
    /\ RunWithoutScroll("resize")
    /\ UNCHANGED timeVars
    /\ UNCHANGED accordionVars
    /\ UNCHANGED animVars

\* Lines 46-49 and 481-487: the timer fires and runs the resize handler.
ResizeTimeout ==
    /\ page # "hung"
    /\ timeout = "pending"
    /\ timeout' = "null"
    /\ RunWithScroll("resizeTimeout")
    /\ UNCHANGED innerWidth
    /\ UNCHANGED timeVars
    /\ UNCHANGED accordionVars
    /\ UNCHANGED animVars

\* Lines 517-526.  The model follows up to MaxBindings bindings of the
\* accordion's click handler.
SectionLoad ==
    /\ page = "ready"
    /\ \A k \in DOMAIN headers : headers[k].handlers < MaxBindings
    /\ headers' = fresh_toggleAccordion(headers)
    /\ click' = NoClick
    /\ RunWithScroll("shopify:section:load")
    /\ UNCHANGED <<innerWidth, timeout>>
    /\ UNCHANGED timeVars
    /\ UNCHANGED animVars

\* The section:reorder handler with the body of the block:load handler.
SectionReorderRerun ==
    /\ page = "ready"
    /\ RunWithScroll("shopify:section:reorder")
    /\ UNCHANGED <<innerWidth, timeout>>
    /\ UNCHANGED timeVars
    /\ UNCHANGED accordionVars
    /\ UNCHANGED animVars

\* Lines 528-530.
SectionReorder ==
    /\ page = "ready"
    /\ RunWithoutScroll("shopify:section:reorder")
    /\ UNCHANGED <<innerWidth, timeout>>
    /\ UNCHANGED timeVars
    /\ UNCHANGED accordionVars
    /\ UNCHANGED animVars

\* Lines 532-536.
BlockLoad ==
    /\ page = "ready"
    /\ RunWithScroll("shopify:block:load")
    /\ UNCHANGED <<innerWidth, timeout>>
    /\ UNCHANGED timeVars
    /\ UNCHANGED accordionVars
    /\ UNCHANGED animVars

Next ==
    \/ DocumentReady
    \/ Resize
    \/ ResizeTimeout
    \/ SectionLoad
    \/ SectionReorder
    \/ BlockLoad

Spec == Init /\ [][Next]_vars

(***************************************************************************)
(* The debounced resize handler in time: one step of Tick is one ms.       *)
(***************************************************************************)
InitDebounce ==
    /\ innerWidth \in Viewports
    /\ scrollers = [k \in 1..NumScrollers |-> DefaultMarkup]
    /\ timeout = "null"
    /\ page = "loading"
    /\ last = NoEvent
    /\ AnimIdle
    /\ TimeIdle
    /\ headers = <<>>
    /\ click = NoClick

\* Lines 44-54: a resize event reaches the debounced wrapper, which clears
\* the pending timer and sets a new one of Wait ms, and calls the handler
\* at once only when immediate is set and no timer was pending.  A timer
\* that is due runs before an event of the same instant.
ResizeEvent ==
    /\ page # "hung"
    /\ 0 \notin timers
    /\ \E w \in Viewports : innerWidth' = w
    /\ timers' = ClearTimeout(timers) \cup {Wait}
    /\ timeout' = "pending"
    /\ sinceResize' = 0
    /\ IF Immediate /\ timeout = "null"
       THEN RunWithScroll("resizeTimeout") /\ burstRuns' = 1
       ELSE RunWithoutScroll("resize") /\ burstRuns' = 0
    /\ UNCHANGED accordionVars
    /\ UNCHANGED animVars

\* Lines 46-49: the timer set by line 52 fires when its wait is over;
\* later() clears the variable and, unless immediate is set, runs the
\* resize handler.
TimerExpires ==
    /\ page # "hung"
    /\ timeout = "pending"
    /\ 0 \in timers
    /\ timers' = timers \ {0}
    /\ timeout' = "null"
    /\ IF ~Immediate
       THEN RunWithScroll("resizeTimeout")
            /\ burstRuns' = IF burstRuns < 2 THEN burstRuns + 1 ELSE burstRuns
       ELSE RunWithoutScroll("timeout") /\ burstRuns' = burstRuns
    /\ UNCHANGED <<innerWidth, sinceResize>>
    /\ UNCHANGED accordionVars
    /\ UNCHANGED animVars

\* One ms passes; no time passes while a timer is due.
Tick ==
    /\ page # "hung"
    /\ 0 \notin timers
    /\ timers' = {t - 1 : t \in timers}
    /\ sinceResize' = IF sinceResize < Wait THEN sinceResize + 1 ELSE sinceResize
    /\ UNCHANGED <<innerWidth, scrollers, timeout, page, last, burstRuns>>
    /\ UNCHANGED accordionVars
    /\ UNCHANGED animVars

NextDebounce ==
    \/ DocumentReady
    \/ ResizeEvent
    \/ TimerExpires
    \/ Tick

SpecDebounce == InitDebounce /\ [][NextDebounce]_vars

(***************************************************************************)
(* The accordion: NumHeaders headers, closed in the markup.                *)
(***************************************************************************)
InitAccordion ==
    /\ innerWidth \in Viewports
    /\ scrollers = <<>>
    /\ timeout = "null"
    /\ page = "loading"
    /\ last = NoEvent
    /\ AnimIdle
    /\ TimeIdle
    /\ headers = [k \in 1..NumHeaders |-> ClosedHeader]
    /\ click = NoClick

\* Lines 167-189: a click on header b of the ready page.
Click ==
    /\ page = "ready"
    /\ \E b \in DOMAIN headers :
          /\ headers' = RunClickHandlers(headers, b, headers[b].handlers)
          /\ click' = [header |-> b, wasActive |-> headers[b].active]
    /\ RunWithoutScroll("click")
    /\ UNCHANGED <<innerWidth, timeout>>
    /\ UNCHANGED timeVars
    /\ UNCHANGED animVars

NextAccordion ==
    \/ DocumentReady
    \/ SectionLoad
    \/ SectionReorder
    \/ BlockLoad
    \/ Click

SpecAccordion == InitAccordion /\ [][NextAccordion]_vars

(***************************************************************************)
(* fresh_startAnimation step by step, on every list of up to MaxItems      *)
(* items of width up to MaxItemWidth in a scroller of visible width up to  *)
(* MaxVisible.  clonedList starts as the deep clone of the list.           *)
(***************************************************************************)
\* No run that ends appends more clones than this; the model records the
\* children of clonedList up to this many.
MaxClones == (11 * MaxVisible + 1) * MaxItems

InitGrowth ==
    /\ innerWidth = 768
    /\ scrollers = <<>>
    /\ timeout = "null"
    /\ page = "loading"
    /\ last = NoEvent
    /\ TimeIdle
    /\ headers = <<>>
    /\ click = NoClick
    /\ animList \in SeqsUpTo(0..MaxItemWidth, MaxItems)
    /\ animVisible \in 0..MaxVisible
    /\ animPc = "call"
    /\ totalWidth = 0
    /\ i = 0
    /\ passStart = -1
    /\ animClones = [k \in DOMAIN animList |-> [item |-> k, hidden |-> FALSE]]

\* Lines 392-393.
AnimEnter ==
    /\ animPc = "call"
    /\ animPc' = "while"
    /\ totalWidth' = 0
    /\ UNCHANGED <<animList, animVisible, i, passStart, animClones>>
    /\ UNCHANGED pageVars

\* Line 394: the while condition; line 395: var i = 0.
AnimWhile ==
    /\ animPc = "while"
    /\ IF LoopCondition(totalWidth, animVisible)
       THEN animPc' = "for" /\ i' = 0 /\ passStart' = totalWidth
       ELSE animPc' = "done" /\ UNCHANGED <<i, passStart>>
    /\ UNCHANGED <<animList, animVisible, totalWidth, animClones>>
    /\ UNCHANGED pageVars

\* Lines 395-400: one iteration of the for loop.
AnimFor ==
    /\ animPc = "for"
    /\ i < Len(animList)
    /\ animClones' = IF Len(animClones) < MaxClones
                     THEN Append(animClones, ClonedChild(i + 1))
                     ELSE animClones
    /\ totalWidth' = totalWidth + ClonedChildWidth(animList[i + 1])
    /\ i' = i + 1
    /\ UNCHANGED <<animPc, animList, animVisible, passStart>>
    /\ UNCHANGED pageVars

\* Line 395: the for condition fails; back to the while condition.
AnimForExit ==
    /\ animPc = "for"
    /\ ~(i < Len(animList))
    /\ animPc' = "while"
    /\ UNCHANGED <<animList, animVisible, totalWidth, i, passStart, animClones>>
    /\ UNCHANGED pageVars

NextGrowth ==
    \/ AnimEnter
    \/ AnimWhile
    \/ AnimFor
    \/ AnimForExit

SpecGrowth == InitGrowth /\ [][NextGrowth]_vars

\* JavaScript runs the routine to completion: a step that can be taken is taken.
FairSpecGrowth == InitGrowth /\ [][NextGrowth]_vars /\ WF_vars(NextGrowth)

(***************************************************************************)
(* Properties of the growth routine.                                       *)
(***************************************************************************)
SomeNonzeroWidth == \E k \in DOMAIN animList : animList[k] > 0
AllZeroWidth == animList # <<>> /\ \A k \in DOMAIN animList : animList[k] = 0
MaxWidth == CHOOSE m \in {animList[k] : k \in DOMAIN animList} \cup {0} :
               \A k \in DOMAIN animList : animList[k] <= m

\* C2 as stated: when the routine returns on a list with an item of nonzero
\* width, 11 * V <= W < 11 * V + (the largest width of a single source item).
GrowthWidthWithinOneItem ==
    (animPc = "done" /\ SomeNonzeroWidth) =>
        /\ 11 * animVisible <= totalWidth
        /\ totalWidth < 11 * animVisible + MaxWidth

\* C2 amended: when the routine returns on a list with an item of nonzero
\* width, 11 * V <= W < 11 * V + (the sum of the widths of all source items):
\* the while condition is tested only after a whole pass over the items.
GrowthWidthWithinOnePass ==
    (animPc = "done" /\ SomeNonzeroWidth) =>
        /\ 11 * animVisible <= totalWidth
        /\ totalWidth < 11 * animVisible + SeqSum(animList)

\* The routine has returned with at least a whole item more than 11 * V.
GrowthOvershootsBySeveralItems ==
    /\ animPc = "done"
    /\ SomeNonzeroWidth
    /\ animVisible > 0
    /\ totalWidth >= 11 * animVisible + MaxWidth

\* C3: on a list with an item of nonzero width, totalWidth is strictly larger
\* at each test of the while condition than at the test before it, and the
\* routine, once called, returns.
GrowthTerminates ==
    /\ []((SomeNonzeroWidth /\ animPc = "while") => totalWidth > passStart)
    /\ ((SomeNonzeroWidth /\ animPc = "call") ~> (animPc = "done"))

\* The routine has returned after more than one pass over a list that also
\* holds an item of zero width.
GrowthEndedAfterSeveralPasses ==
    /\ animPc = "done"
    /\ SomeNonzeroWidth
    /\ \E k \in DOMAIN animList : animList[k] = 0
    /\ passStart > 0

\* C4: when every source item has zero width and the visible width is
\* positive, the routine, once called, returns.
ZeroWidthGrowthTerminates ==
    (AllZeroWidth /\ animVisible > 0 /\ animPc = "call") ~> (animPc = "done")

(***************************************************************************)
(* Properties of fresh_infinite_scroll and of the event handlers.          *)
(***************************************************************************)
AllScrollers == DOMAIN scrollers
DuplicateCount(s) ==
    Cardinality({k \in DOMAIN scrollers[s].dups :
                    "fresh-duplicated-list" \in scrollers[s].dups[k].classes})
\* fresh_infinite_scroll has been called and the page is not stuck in a call.
Invoked == page # "hung" /\ \E s \in AllScrollers : scrollers[s].dups # <<>>
HasSlickConfig(s) == Truthy(scrollers[s].list.slick)
LifecycleEvents == {"shopify:section:load", "shopify:section:reorder", "shopify:block:load"}
ScrollEvents == {"ready", "resizeTimeout", "shopify:section:load", "shopify:block:load"}

\* C1: once fresh_infinite_scroll has been invoked, every scroller has
\* exactly one child list marked fresh-duplicated-list.
ExactlyOneDuplicate ==
    Invoked => \A s \in AllScrollers : DuplicateCount(s) = 1

\* C5: a handler leaves a scroller whose list has no items as it was, starts
\* no growth for it, and completes.
ZeroItemScrollerUntouched ==
    [][\A s \in AllScrollers :
          scrollers[s].list.items = <<>> =>
              /\ scrollers'[s] = scrollers[s]
              /\ s \notin last'.grew
              /\ page' # "hung"]_vars

\* C6: the growth routine is not invoked for a scroller with slider
\* configuration whose active breakpoint (desktop from 768 px, mobile below)
\* is not set to unslick.
NoGrowthWhenActiveSliderEnabled ==
    \A s \in last.grew :
        HasSlickConfig(s) =>
            (IF innerWidth >= 768
             THEN DesktopSlick(scrollers[s].list.slick)
             ELSE MobileSlick(scrollers[s].list.slick)) = "unslick"

\* C7 as stated: the growth routine is invoked for a scroller with slider
\* configuration only if both breakpoints are set to unslick.
NoGrowthUnlessBothUnslick ==
    \A s \in last.grew :
        HasSlickConfig(s) =>
            /\ DesktopSlick(scrollers[s].list.slick) = "unslick"
            /\ MobileSlick(scrollers[s].list.slick) = "unslick"

\* C7 amended: the growth routine is invoked for a scroller with slider
\* configuration only if the breakpoint whose speed line 386-387 uses (mobile
\* up to 768 px, desktop above) is set to unslick, whatever the other
\* breakpoint is set to.
GrowthOnlyWhenOwnBreakpointUnslick ==
    \A s \in last.grew :
        HasSlickConfig(s) =>
            (IF innerWidth <= 768
             THEN MobileSlick(scrollers[s].list.slick)
             ELSE DesktopSlick(scrollers[s].list.slick)) = "unslick"

\* Growth was invoked for a scroller whose other breakpoint has its slider on.
GrewWithOtherSliderEnabled ==
    \E s \in last.grew :
        /\ HasSlickConfig(s)
        /\ DesktopSlick(scrollers[s].list.slick) # MobileSlick(scrollers[s].list.slick)

\* C8: a handler that calls fresh_infinite_scroll on a page with a scroller
\* whose data-slick cannot be used does not throw, processes every scroller
\* and runs the calls that follow.
MalformedConfigNeverThrows ==
    (/\ last.type \in ScrollEvents
     /\ last.outcome # "hang"
     /\ \E s \in AllScrollers : HasSlickConfig(s) /\ SlickThrows(scrollers[s].list.slick))
    => (last.outcome = "ok" /\ last.reached = AllScrollers /\ last.rest)

\* C9: a handler changes an image's src only if the image had no src and a
\* non-empty data-src, and then to that data-src.
PromotionOnlyFromPlaceholder ==
    [][\A s \in AllScrollers : \A k \in DOMAIN scrollers[s].list.items :
          LET old == scrollers[s].list.items[k]
              new == scrollers'[s].list.items[k]
          IN  old.img =>
                \/ new.src = old.src
                \/ /\ old.src = <<>>
                   /\ old.dataSrc \notin {<<>>, <<"">>}
                   /\ new.src = old.dataSrc]_vars

\* C10 as stated: after each of the three lifecycle events, when its handler
\* completed, every scroller's duplicated list has been rebuilt.
LifecycleEventsRebuildAll ==
    (last.type \in LifecycleEvents /\ last.outcome = "ok") => last.reached = AllScrollers

\* C10 amended: section:load and block:load rebuild the duplicated lists in
\* document order, the first always and all of them when the handler
\* completes; section:reorder rebuilds none.
LoadEventsRebuildReorderDoesNot ==
    /\ last.type \in {"shopify:section:load", "shopify:block:load"} =>
          /\ 1 \in last.reached
          /\ \A k \in last.reached : \A j \in 1..k : j \in last.reached
          /\ last.outcome = "ok" => last.reached = AllScrollers
    /\ last.type = "shopify:section:reorder" => last.reached = {}

\* A section:reorder was delivered to a page whose scrollers have duplicates.
ReorderDeliveredAfterBuild ==
    /\ last.type = "shopify:section:reorder"
    /\ \A s \in AllScrollers : scrollers[s].dups # <<>>

(***************************************************************************)
(* The debounced resize handler.                                           *)
(***************************************************************************)
\* At most one timer is pending; it is due Wait ms after the latest resize
\* event, and the handler has not run since that event.
PendingTimerFollowsLastResize ==
    /\ Cardinality(timers) <= 1
    /\ (timers # {}) = (timeout = "pending")
    /\ \A t \in timers : t = Wait - sinceResize /\ burstRuns = 0
    /\ burstRuns <= 1

\* A resize event does not run the handler and leaves only its own timer;
\* the timer goes only by firing, Wait ms after the latest resize event,
\* and that runs the handler for the first time since that event.
TrailingEdgeStep ==
    /\ sinceResize' = 0 => burstRuns' = 0 /\ timers' = {Wait}
    /\ burstRuns' # burstRuns /\ burstRuns' # 0 =>
          sinceResize = Wait /\ timers = {0} /\ burstRuns' = 1
    /\ timers # {} /\ timers' = {} =>
          sinceResize = Wait /\ burstRuns = 0 /\ burstRuns' = 1

\* C11: the debounced resize handler runs only on the trailing edge: once
\* per burst of resize events, Wait ms after the last event of the burst,
\* never on a resize event and never less than Wait ms after one; each
\* resize event cancels the pending timer.
DebounceTrailingEdge ==
    /\ []PendingTimerFollowsLastResize
    /\ [][TrailingEdgeStep]_vars

\* The handler has run Wait ms after a resize event that did not run it.
HandlerRanAfterBurst ==
    /\ last.type = "resizeTimeout"
    /\ burstRuns = 1
    /\ sinceResize = Wait
    /\ timers = {}

(***************************************************************************)
(* The accordion.                                                          *)
(***************************************************************************)
\* C12: after any header clicks and shopify:section:load events, a click on
\* an inactive header leaves that header active and the only active one,
\* and a click on the active header leaves no header active.
ClickTogglesClickedHeader ==
    click.header # 0 =>
        IF click.wasActive
        THEN \A k \in DOMAIN headers : ~headers[k].active
        ELSE \A k \in DOMAIN headers : headers[k].active = (k = click.header)

(***************************************************************************)
(* The duplicated list after growth.                                       *)
(***************************************************************************)
\* The scrollers whose growth routine the latest event ran to its end.
GrowthCompleted ==
    {s \in last.grew : ~(last.outcome = "hang" /\ \A r \in last.reached : r <= s)}

\* The list that lines 373-377 appended to scroller s.
DuplicatedList(s) == scrollers[s].dups[Len(scrollers[s].dups)]

\* Child j of the duplicated list is a clone of source item j mod n, the
\* children after the first n are marked aria-hidden, the two lists carry
\* their classes, and the children are at least minReps whole repetitions.
WholeRepetitions(s, minReps) ==
    LET n == Len(scrollers[s].list.items)
        dup == DuplicatedList(s)
        children == dup.children
    IN  /\ \E k \in minReps..(minReps + Len(children)) : Len(children) = k * n
        /\ \A j \in DOMAIN children :
              /\ children[j].item = ((j - 1) % n) + 1
              /\ children[j].hidden = (j > n)
        /\ "fresh-duplicated-list" \in dup.classes
        /\ "fresh-is-animated" \notin dup.classes
        /\ "fresh-is-animated" \in scrollers[s].list.classes

\* No step changes the number or the order of a source list's items.
SourceItemsKept ==
    \A s \in DOMAIN scrollers :
        LET old == scrollers[s].list.items
            new == scrollers'[s].list.items
        IN  /\ Len(new) = Len(old)
            /\ \A k \in DOMAIN old :
                  /\ new[k].img = old[k].img
                  /\ new[k].dataSrc = old[k].dataSrc
                  /\ new[k].offsetWidth = old[k].offsetWidth

\* C13 as stated: after growth the duplicated list's children are k >= 2
\* whole repetitions of the source items in source order, the appended ones
\* marked aria-hidden, the clone carrying fresh-duplicated-list and not
\* fresh-is-animated, the source list carrying fresh-is-animated with its
\* own children unchanged in number and order.
GrownListRepeatsAtLeastTwice ==
    /\ [](\A s \in GrowthCompleted : WholeRepetitions(s, 2))
    /\ [][SourceItemsKept]_vars

\* C13, amended: the same with k >= 1 whole repetitions, and k >= 2 when the
\* scroller's visible width is positive.
GrownListRepeatsSource ==
    /\ [](\A s \in GrowthCompleted :
            WholeRepetitions(s, IF scrollers[s].offsetWidth > 0 THEN 2 ELSE 1))
    /\ [][SourceItemsKept]_vars

\* A scroller of MaxItems items has grown to several repetitions.
GrewSeveralRepetitions ==
    \E s \in GrowthCompleted :
        /\ Len(scrollers[s].list.items) = MaxItems
        /\ Len(DuplicatedList(s).children) >= 2 * MaxItems

====
